---- MODULE Spec2Model ----
(***************************************************************************)
(* Web_view: a signage controller that shows a list of pages either by     *)
(* rotating them in one window (single mode) or by laying them out in a    *)
(* grid of cells on every monitor (multi mode).                            *)
(*                                                                         *)
(* The repository holds four revisions of the program: main.py,            *)
(* main_update.py, main_update2.py and main_final.py.  The variable rev    *)
(* says which revision is running; it never changes.                       *)
(*                                                                         *)
(* Text (titles, URLs, the content of input fields, list items) is a       *)
(* sequence of one-character strings.  A legacy URL entry u of the         *)
(* revisions before main_final.py is written [title |-> <<>>, url |-> u].  *)
(***************************************************************************)
EXTENDS Integers, Sequences, FiniteSets, TLC

VARIABLES
    rev,               \* the revision of the program that is running
    stored,            \* config.json: the persisted file
    mode,              \* MainController.mode
    pages,             \* MainController.pages (urls in the older revisions)
    refresh_interval,  \* MainController.refresh_interval
    slots_per_screen,  \* MainController.slots_per_screen
    windows,           \* MainController.windows
    screens,           \* number of monitors the topology provider reports
    page_list,         \* SettingsWindow.page_list: the item texts
    edits,             \* history: the number of list edits the user has made
    error,             \* exception that left a handler, "none" if none did
    applied,           \* history: what apply_mode was given when it built the windows
    last,              \* history: the last toggle_mode or save_settings and its outcome
    closed,            \* windows apply_mode closed and dropped that the runtime still holds
    collector          \* when the Python runtime reclaims an object nothing refers to

vars == <<rev, stored, mode, pages, refresh_interval, slots_per_screen,
          windows, screens, page_list, edits, error, applied, last, closed,
          collector>>

----------------------------------------------------------------------------
(* Bounds                                                                  *)

MaxScreens == 1      \* monitors reported by the topology provider: 1..MaxScreens
MaxPages == 2        \* length of the page lists of the stored files of Spec
MaxEdits == 1        \* list edits the user makes
MaxTicks == 2        \* timer events of one window that are followed
MaxShowScreens == 2  \* monitors in SpecShow: 0..MaxShowScreens
MaxShowPages == 3    \* length of the page lists of the stored files of SpecShow
MaxShowSlots == 5    \* slots_per_screen of the stored files of SpecShow
MaxWallScreens == 3  \* monitors in SpecWall: 0..MaxWallScreens
MaxWallPages == 18   \* length of the page lists of the stored files of SpecWall
MaxSlots == 20       \* slots_per_screen of the stored files of SpecWall
MaxLate == 1         \* timer events of one closed window that are followed

----------------------------------------------------------------------------
(* Text                                                                    *)

Min(a, b) == IF a < b THEN a ELSE b
Max(a, b) == IF a > b THEN a ELSE b

Whitespace == {" "}
DigitChars == <<"0", "1", "2", "3", "4", "5", "6", "7", "8", "9">>

\* str.strip(): drop leading and trailing whitespace
RECURSIVE LStrip(_)
LStrip(s) == IF s # <<>> /\ Head(s) \in Whitespace THEN LStrip(Tail(s)) ELSE s

RECURSIVE RStrip(_)
RStrip(s) == IF s # <<>> /\ s[Len(s)] \in Whitespace
             THEN RStrip(SubSeq(s, 1, Len(s) - 1)) ELSE s

strip(s) == RStrip(LStrip(s))

\* str.startswith(prefix)
startswith(s, prefix) ==
    /\ Len(s) >= Len(prefix)
    /\ SubSeq(s, 1, Len(prefix)) = prefix

HTTP == <<"h", "t", "t", "p", ":", "/", "/">>
HTTPS == <<"h", "t", "t", "p", "s", ":", "/", "/">>

\* mutant: only leading whitespace is trimmed
format_url_lstrip_only(url_str) ==
    LET u == LStrip(url_str)
    IN  IF ~(startswith(u, HTTP) \/ startswith(u, HTTPS)) THEN HTTPS \o u ELSE u

format_url(url_str) ==
    LET u == strip(url_str)
    IN  IF ~(startswith(u, HTTP) \/ startswith(u, HTTPS)) THEN HTTPS \o u ELSE u

\* the value of one decimal digit character
DigitValue(ch) == CHOOSE d \in 0..9 : DigitChars[d + 1] = ch

IsDigit(ch) == \E d \in 0..9 : DigitChars[d + 1] = ch

RECURSIVE DigitsValue(_)
DigitsValue(s) == IF s = <<>> THEN 0
                  ELSE 10 * DigitsValue(SubSeq(s, 1, Len(s) - 1)) + DigitValue(s[Len(s)])

\* int(text): an optional sign followed by one or more decimal digits, with
\* surrounding whitespace allowed; anything else raises ValueError
IntBody(s) == IF s # <<>> /\ Head(s) \in {"-", "+"} THEN Tail(s) ELSE s

IntValid(text) ==
    LET s == strip(text)
    IN  /\ IntBody(s) # <<>>
        /\ \A i \in 1..Len(IntBody(s)) : IsDigit(IntBody(s)[i])

IntOf(text) ==
    LET s == strip(text)
    IN  IF Head(s) = "-" THEN 0 - DigitsValue(IntBody(s)) ELSE DigitsValue(IntBody(s))

\* str(n) for an integer n
RECURSIVE NatText(_)
NatText(n) == IF n < 10 THEN <<DigitChars[n + 1]>>
              ELSE NatText(n \div 10) \o <<DigitChars[(n % 10) + 1]>>

IntText(n) == IF n < 0 THEN <<"-">> \o NatText(0 - n) ELSE NatText(n)

----------------------------------------------------------------------------
(* Pages and the stored configuration                                      *)

Revisions == {"main", "update", "update2", "final"}

\* revisions whose controller has slots_per_screen
HasSlots(r) == r # "main"

\* revisions whose list entries are {title, url} records, not bare URLs
HasTitles(r) == r = "final"

NoPage == [title |-> <<>>, url |-> <<>>]

\* the default pages of load_config
DefaultPages ==
    << [title |-> <<"E", "x", "a", "m", "p", "l", "e", " ", "1">>, url |-> <<"h", "t", "t", "p", "s", ":", "/", "/", "e", "x", "a", "m", "p", "l", "e", ".", "c", "o", "m">>],
       [title |-> <<"E", "x", "a", "m", "p", "l", "e", " ", "2">>, url |-> <<"h", "t", "t", "p", "s", ":", "/", "/", "e", "x", "a", "m", "p", "l", "e", ".", "o", "r", "g">>],
       [title |-> <<"E", "x", "a", "m", "p", "l", "e", " ", "3">>, url |-> <<"h", "t", "t", "p", "s", ":", "/", "/", "e", "x", "a", "m", "p", "l", "e", ".", "n", "e", "t">>] >>

\* the default urls of load_config in the revisions before main_final.py
DefaultUrls == [i \in 1..3 |-> [title |-> <<>>, url |-> DefaultPages[i].url]]

DefaultRefreshInterval == 5000
DefaultMode == "single"
DefaultSlotsPerScreen == 1

\* pages a user enters: five titles and five host names
PageNames == <<"A", "B", "C", "D", "E">>
HostNames == <<"a", "b", "c", "d", "e">>

UserPage(r, i) ==
    [title |-> IF HasTitles(r) THEN <<PageNames[i]>> ELSE <<>>,
     url |-> <<HostNames[i]>>]

\* the list of n pages A, B, C, D, E, A, B, ...
CyclicPages(r, n) == [i \in 1..n |-> UserPage(r, ((i - 1) % Len(PageNames)) + 1)]

ConfigKeys == {"pages", "refresh_interval", "mode", "slots_per_screen"}

\* config.json.  kind says whether the file exists and what json.load makes
\* of it; has is the set of keys of the object ("pages" stands for the list key
\* of the revision, "urls" before main_final.py); a field whose key is not in has
\* carries no information.
ConfigFile(kind, has, p, ri, m, sps) ==
    [kind |-> kind, has |-> has, pages |-> p, refresh_interval |-> ri,
     mode |-> m, slots_per_screen |-> sps]

NoFile(kind) == ConfigFile(kind, {}, <<>>, 0, "", 0)

\* data.get(key, default)
Get(data, key, default) == IF key \in data.has THEN data[key] ELSE default

DefaultConfig(r) ==
    [pages |-> IF HasTitles(r) THEN DefaultPages ELSE DefaultUrls,
     refresh_interval |-> DefaultRefreshInterval,
     mode |-> DefaultMode,
     slots_per_screen |-> DefaultSlotsPerScreen]

\* mutant: an object that lacks a key gives the whole default record
load_config_all_or_nothing(r, file) ==
    IF file.kind = "object" /\ file.has = ConfigKeys
    THEN [pages |-> file.pages, refresh_interval |-> file.refresh_interval,
          mode |-> file.mode,
          slots_per_screen |-> IF HasSlots(r) THEN file.slots_per_screen
                               ELSE DefaultSlotsPerScreen]
    ELSE DefaultConfig(r)

\* load_config: a missing file, a file json.load rejects, and a file that is
\* not an object (data.get raises, the except clause catches it) give the
\* default record; an object gives its fields, each defaulting on its own
load_config(r, file) ==
    IF file.kind = "object"
    THEN [pages |-> Get(file, "pages", DefaultConfig(r).pages),
          refresh_interval |-> Get(file, "refresh_interval", DefaultRefreshInterval),
          mode |-> Get(file, "mode", DefaultMode),
          slots_per_screen |-> IF HasSlots(r)
                               THEN Get(file, "slots_per_screen", DefaultSlotsPerScreen)
                               ELSE DefaultSlotsPerScreen]
    ELSE DefaultConfig(r)

\* save_config: the record written to config.json
save_config(p, ri, m, sps) == ConfigFile("object", ConfigKeys, p, ri, m, sps)

----------------------------------------------------------------------------
(* Grid shape                                                              *)

\* mutant: the 2x2 grid given to 3 slots only
get_grid_for_slots_off_by_one(slots) ==
    IF slots <= 1 THEN <<1, 1>>
    ELSE IF slots = 2 THEN <<1, 2>>
    ELSE IF slots < 4 THEN <<2, 2>>
    ELSE IF slots <= 6 THEN <<2, 3>>
    ELSE IF slots <= 9 THEN <<3, 3>>
    ELSE IF slots <= 12 THEN <<3, 4>>
    ELSE <<4, 4>>

get_grid_for_slots(slots) ==
    IF slots <= 1 THEN <<1, 1>>
    ELSE IF slots = 2 THEN <<1, 2>>
    ELSE IF slots <= 4 THEN <<2, 2>>
    ELSE IF slots <= 6 THEN <<2, 3>>
    ELSE IF slots <= 9 THEN <<3, 3>>
    ELSE IF slots <= 12 THEN <<3, 4>>
    ELSE IF slots <= 16 THEN <<4, 4>>
    ELSE <<4, 4>>


----------------------------------------------------------------------------
(* Windows                                                                 *)

\* A window of either class.  screen is the monitor it was built for (0: the
\* default rectangle of the single-mode window).  positions[k] is the index in
\* the controller's list of the window's k-th page (the value page_index had
\* when apply_mode took it).  log lists the renders of the single-mode
\* webview, ticks counts the timer events the window has handled.
Window(kind, screen, pgs, positions, ri, sps) ==
    [kind |-> kind, screen |-> screen, pages |-> pgs, positions |-> positions,
     refresh_interval |-> ri, slots_per_screen |-> sps,
     current_index |-> 0, rows |-> 0, cols |-> 0, cells |-> <<>>, views |-> <<>>,
     title_label |-> <<>>, webview |-> <<>>,
     timer |-> FALSE, visible |-> FALSE, log |-> <<>>, ticks |-> 0]

\* QTimer.start(msec): Qt refuses a negative interval and the timer stays idle
TimerStarts(ri) == ri >= 0

\* a grid cell that shows a page: title label and QWebEngineView
PageCell(cell_index, r, c, page, pos) ==
    [index |-> cell_index, row |-> r, col |-> c, signal |-> TRUE, page |-> page,
     pos |-> pos, url |-> format_url(page.url), reloads |-> 0]

\* NoSignalWidget
NoSignalCell(cell_index, r, c) ==
    [index |-> cell_index, row |-> r, col |-> c, signal |-> FALSE, page |-> NoPage,
     pos |-> 0 - 1, url |-> <<>>, reloads |-> 0]

\* mutant: the index is not advanced
show_next_page_stuck(w, by) ==
    IF w.pages = <<>> THEN w
    ELSE LET page == w.pages[w.current_index + 1]
         IN  [w EXCEPT !.title_label = page.title,
                       !.webview = format_url(page.url),
                       !.log = Append(@, [index |-> w.current_index, page |-> page, by |-> by])]

\* mutant: the index is advanced without wrapping
show_next_page_no_wrap(w, by) ==
    IF w.pages = <<>> THEN w
    ELSE LET page == w.pages[w.current_index + 1]
         IN  [w EXCEPT !.title_label = page.title,
                       !.webview = format_url(page.url),
                       !.log = Append(@, [index |-> w.current_index, page |-> page, by |-> by]),
                       !.current_index = w.current_index + 1]

\* SingleScreenWindow.show_next_page of main_final.py; by says who called it
show_next_page(w, by) ==
    IF w.pages = <<>> THEN w
    ELSE LET page == w.pages[w.current_index + 1]
         IN  [w EXCEPT !.title_label = page.title,
                       !.webview = format_url(page.url),
                       !.log = Append(@, [index |-> w.current_index, page |-> page, by |-> by]),
                       !.current_index = (w.current_index + 1) % Len(w.pages)]

\* SingleScreenWindow.show_next_url of main_update.py and main_update2.py, and
\* RefreshableWindow.refresh_content of main.py in single mode: no guard, the
\* subscript raises IndexError on an empty list
show_next_url(w, by) ==
    IF w.current_index >= Len(w.pages)
    THEN [win |-> w, error |-> "IndexError"]
    ELSE LET page == w.pages[w.current_index + 1]
         IN  [win |-> [w EXCEPT !.webview = format_url(page.url),
                                !.log = Append(@, [index |-> w.current_index, page |-> page, by |-> by]),
                                !.current_index = (w.current_index + 1) % Len(w.pages)],
              error |-> "none"]

\* mutant: the constructor leaves the first render to the timer
SingleScreenWindow_no_first_show(r, pgs, ri) ==
    [win |-> [Window("single", 0, pgs, [i \in 1..Len(pgs) |-> i - 1], ri, 0)
                EXCEPT !.timer = TimerStarts(ri)],
     error |-> "none"]

\* SingleScreenWindow.__init__ (RefreshableWindow.__init__ with single_mode in
\* main.py): index 0, the timer is started, then the first page is shown
SingleScreenWindow(r, pgs, ri) ==
    LET w0 == [Window("single", 0, pgs, [i \in 1..Len(pgs) |-> i - 1], ri, 0)
                 EXCEPT !.timer = TimerStarts(ri)]
    IN  IF r = "final"
        THEN [win |-> show_next_page(w0, "init"), error |-> "none"]
        ELSE show_next_url(w0, "init")

\* mutant: the cells are laid out column by column
GridCells_column_major(cell_index, total_cells, cols, pgs, positions) ==
    [k \in 1..(total_cells - cell_index) |->
        LET idx == cell_index + k - 1
            rows == total_cells \div cols
        IN  IF idx < Len(pgs)
            THEN PageCell(idx, idx % rows, idx \div rows, pgs[idx + 1], positions[idx + 1])
            ELSE NoSignalCell(idx, idx % rows, idx \div rows)]

\* the cells MultiScreenWindow.__init__ adds to the grid, cell_index onwards
RECURSIVE GridCells(_, _, _, _, _)
GridCells(cell_index, total_cells, cols, pgs, positions) ==
    IF cell_index >= total_cells THEN <<>>
    ELSE LET r == cell_index \div cols
             c == cell_index % cols
             assigned_count == Len(pgs)
             cell == IF cell_index < assigned_count
                     THEN PageCell(cell_index, r, c, pgs[cell_index + 1],
                                   positions[cell_index + 1])
                     ELSE NoSignalCell(cell_index, r, c)
         IN  <<cell>> \o GridCells(cell_index + 1, total_cells, cols, pgs, positions)

\* self.views: the cells that got a QWebEngineView, in the order they were added
ViewsOf(cells) == SelectSeq([i \in 1..Len(cells) |-> cells[i].index],
                            LAMBDA k : cells[k + 1].signal)

\* mutant: as many cells as slots, not rows * cols
MultiScreenWindow_slot_cells(screen, pgs, positions, ri, sps) ==
    LET grid == get_grid_for_slots(sps)
        cells == GridCells(0, sps, grid[2], pgs, positions)
    IN  [Window("multi", screen, pgs, positions, ri, sps)
           EXCEPT !.rows = grid[1], !.cols = grid[2], !.cells = cells,
                  !.views = ViewsOf(cells), !.timer = TimerStarts(ri)]

\* MultiScreenWindow.__init__ of main_update2.py and main_final.py
MultiScreenWindow(screen, pgs, positions, ri, sps) ==
    LET grid == get_grid_for_slots(sps)
        rows == grid[1]
        cols == grid[2]
        total_cells == rows * cols
        cells == GridCells(0, total_cells, cols, pgs, positions)
    IN  [Window("multi", screen, pgs, positions, ri, sps)
           EXCEPT !.rows = rows, !.cols = cols, !.cells = cells,
                  !.views = ViewsOf(cells), !.timer = TimerStarts(ri)]

\* MultiScreenWindow.__init__ of main_update.py: one view per URL in a vertical
\* box, no grid, no placeholder, no timer
MultiScreenWindow_update(screen, pgs, positions, ri, sps) ==
    [Window("multi", screen, pgs, positions, ri, sps)
       EXCEPT !.cells = [i \in 1..Len(pgs) |->
                            PageCell(i - 1, i - 1, 0, pgs[i], positions[i])]]

\* RefreshableWindow.__init__ of main.py with single_mode = False: the window
\* shows its first URL and its timer is not started
RefreshableWindow_multi(screen, pgs, positions, ri) ==
    [Window("multi", screen, pgs, positions, ri, 0)
       EXCEPT !.webview = format_url(pgs[1].url),
              !.cells = <<PageCell(0, 0, 0, pgs[1], positions[1])>>]


----------------------------------------------------------------------------
(* MainController.apply_mode                                               *)

\* mutant: the loop takes every page that is left
TakePages_unlimited(iters, page_index, n, taken) ==
    [k \in 1..Max(0, n - page_index) |-> page_index + k - 1]

\* the inner loop of apply_mode: up to iters more pages are taken from
\* page_index on; taken lists the indices taken so far
RECURSIVE TakePages(_, _, _, _)
TakePages(iters, page_index, n, taken) ==
    IF iters <= 0 THEN taken
    ELSE IF page_index < n
         THEN TakePages(iters - 1, page_index + 1, n, Append(taken, page_index))
         ELSE taken

\* the pages at the given indices of the list
PagesAt(pgs, positions) == [k \in 1..Len(positions) |-> pgs[positions[k] + 1]]

\* mutant: the list is cut into m contiguous blocks
Stride_contiguous(i, m, n) ==
    LET c == (n + m - 1) \div m
    IN  [k \in 1..Max(0, Min((i + 1) * c, n) - i * c) |-> i * c + k - 1]

\* the indices of the slice urls[i::m] of a list of n URLs
Stride(i, m, n) ==
    LET count == IF i >= n THEN 0 ELSE ((n - 1 - i) \div m) + 1
    IN  [k \in 1..count |-> i + (k - 1) * m]

\* mutant: every monitor takes every scr-th page, as main.py does
RECURSIVE MultiWindows_strided(_, _, _, _, _, _)
MultiWindows_strided(screen, scr, page_index, pgs, ri, sps) ==
    IF screen > scr THEN <<>>
    ELSE LET share == Stride(screen - 1, scr, Len(pgs))
             positions == SubSeq(share, 1, Min(sps, Len(share)))
         IN  <<MultiScreenWindow(screen, PagesAt(pgs, positions), positions, ri, sps)>>
             \o MultiWindows_strided(screen + 1, scr, page_index, pgs, ri, sps)

\* mutant: no window for a monitor that got no page
RECURSIVE MultiWindows_skip_empty(_, _, _, _, _, _)
MultiWindows_skip_empty(screen, scr, page_index, pgs, ri, sps) ==
    IF screen > scr THEN <<>>
    ELSE LET positions == TakePages(sps, page_index, Len(pgs), <<>>)
             screen_pages == PagesAt(pgs, positions)
             rest == MultiWindows_skip_empty(screen + 1, scr, page_index + Len(positions),
                                             pgs, ri, sps)
         IN  IF screen_pages # <<>>
             THEN <<MultiScreenWindow(screen, screen_pages, positions, ri, sps)>> \o rest
             ELSE rest

\* the loop over the monitors in apply_mode of main_update2.py and
\* main_final.py, from monitor screen on with the cursor at page_index
RECURSIVE MultiWindows(_, _, _, _, _, _)
MultiWindows(screen, scr, page_index, pgs, ri, sps) ==
    IF screen > scr THEN <<>>
    ELSE LET positions == TakePages(sps, page_index, Len(pgs), <<>>)
             screen_pages == PagesAt(pgs, positions)
             rest == MultiWindows(screen + 1, scr, page_index + Len(positions),
                                  pgs, ri, sps)
         IN  IF screen_pages # <<>> \/ sps > 0
             THEN <<MultiScreenWindow(screen, screen_pages, positions, ri, sps)>> \o rest
             ELSE rest

\* the same loop in main_update.py: a window only for a monitor that got a URL
RECURSIVE MultiWindows_update(_, _, _, _, _, _)
MultiWindows_update(screen, scr, idx, pgs, ri, sps) ==
    IF screen > scr THEN <<>>
    ELSE LET positions == TakePages(sps, idx, Len(pgs), <<>>)
             window_urls == PagesAt(pgs, positions)
             rest == MultiWindows_update(screen + 1, scr, idx + Len(positions),
                                         pgs, ri, sps)
         IN  IF window_urls # <<>>
             THEN <<MultiScreenWindow_update(screen, window_urls, positions, ri, sps)>>
                  \o rest
             ELSE rest

\* MainController._create_multi_windows of main.py, from monitor i (0-based) on
RECURSIVE create_multi_windows(_, _, _, _)
create_multi_windows(i, scr, pgs, ri) ==
    IF i >= scr THEN <<>>
    ELSE LET positions == Stride(i, scr, Len(pgs))
             urls_for_window == PagesAt(pgs, positions)
             rest == create_multi_windows(i + 1, scr, pgs, ri)
         IN  IF urls_for_window # <<>>
             THEN <<RefreshableWindow_multi(i + 1, urls_for_window, positions, ri)>>
                  \o rest
             ELSE rest

\* win.show() for every window
ShowAll(wins) == [i \in 1..Len(wins) |-> [wins[i] EXCEPT !.visible = TRUE]]

\* mutant: the list of windows is not cleared
CloseAll_keep(wins) == wins

\* mutant: the first of the old windows stays in the list
CloseAll_keeps_first(wins) == IF wins = <<>> THEN <<>> ELSE <<Head(wins)>>

\* win.close() for every window, then self.windows.clear()
CloseAll(wins) == SubSeq(wins, 1, 0)

\* The windows apply_mode has closed and dropped.  close() hides a window; it
\* neither stops its timer nor destroys it.  The object and the timer in it end
\* when the runtime reclaims the object: at once where objects are reference
\* counted, at some later time where collection is deferred.  late counts the
\* timer events the window has handled since it was closed.
Unreclaimed(wins) ==
    IF collector = "refcount" THEN <<>>
    ELSE [i \in 1..Len(wins) |-> [win |-> [wins[i] EXCEPT !.visible = FALSE], late |-> 0]]

\* mutant: single mode builds a window on every monitor
apply_mode_window_per_screen(r, wins, m, pgs, ri, sps, scr) ==
    IF m = "single"
    THEN LET made == SingleScreenWindow(r, pgs, ri)
         IN  IF made.error = "none"
             THEN [windows |-> ShowAll([i \in 1..scr |-> made.win]), error |-> "none"]
             ELSE [windows |-> <<>>, error |-> made.error]
    ELSE [windows |-> ShowAll(MultiWindows(1, scr, 0, pgs, ri, sps)), error |-> "none"]

\* apply_mode: the old windows are closed and dropped, the new ones are built
\* for the mode, appended to the list, and the list is shown.  An exception
\* of a constructor leaves apply_mode after the list was cleared.
apply_mode(r, wins, m, pgs, ri, sps, scr) ==
    LET kept == CloseAll(wins)
    IN  IF m = "single"
        THEN LET made == SingleScreenWindow(r, pgs, ri)
             IN  IF made.error = "none"
                 THEN [windows |-> ShowAll(Append(kept, made.win)), error |-> "none"]
                 ELSE [windows |-> kept, error |-> made.error]
        ELSE IF r = "main"
             THEN [windows |-> IF m = "multi"
                               THEN ShowAll(kept \o create_multi_windows(0, scr, pgs, ri))
                               ELSE ShowAll(kept),
                   error |-> "none"]
             ELSE IF r = "update"
                  THEN [windows |-> ShowAll(kept \o MultiWindows_update(1, scr, 0, pgs, ri, sps)),
                        error |-> "none"]
                  ELSE [windows |-> ShowAll(kept \o MultiWindows(1, scr, 0, pgs, ri, sps)),
                        error |-> "none"]


----------------------------------------------------------------------------
(* SettingsWindow                                                          *)

SEP == <<" ", "|", " ">>

\* the text of the list item of a page: f"{title} | {url}" in main_final.py,
\* the URL itself in the older revisions
ItemText(r, p) == IF HasTitles(r) THEN p.title \o SEP \o p.url ELSE p.url

ItemsOf(r, pgs) == [i \in 1..Len(pgs) |-> ItemText(r, pgs[i])]

\* the position of the first " | " in a text, 0 if there is none
FindSep(text) ==
    LET hits == {i \in 1..Len(text) : startswith(SubSeq(text, i, Len(text)), SEP)}
    IN  IF hits = {} THEN 0 ELSE CHOOSE i \in hits : \A j \in hits : i <= j

\* item_text.split(" | ", 1)
SplitItem(text) ==
    LET i == FindSep(text)
    IN  [title |-> SubSeq(text, 1, i - 1), url |-> SubSeq(text, i + Len(SEP), Len(text))]

\* the pages save_settings collects from the list: in main_final.py an item
\* without " | " is skipped; in the older revisions every item is a URL
RECURSIVE CollectPages(_, _)
CollectPages(r, items) ==
    IF items = <<>> THEN <<>>
    ELSE LET item_text == Head(items)
             rest == CollectPages(r, Tail(items))
         IN  IF HasTitles(r)
             THEN IF FindSep(item_text) # 0 THEN <<SplitItem(item_text)>> \o rest ELSE rest
             ELSE <<[title |-> <<>>, url |-> item_text]>> \o rest

NoApply == [mode |-> "", pages |-> <<>>, refresh_interval |-> 0,
            slots_per_screen |-> 0, screens |-> 0 - 1]

Snapshot(m, pgs, ri, sps, scr) ==
    [mode |-> m, pages |-> pgs, refresh_interval |-> ri,
     slots_per_screen |-> sps, screens |-> scr]

\* again: apply_mode was given what the windows on screen had been built from
Did(op, outcome, again) == [op |-> op, outcome |-> outcome, again |-> again]

----------------------------------------------------------------------------
(* Start of the program                                                    *)

\* __main__: load_config, MainController.__init__, SettingsWindow.__init__.
\* No window is built before the user acts.
Start(r, file, scr) ==
    LET initial_config == load_config(r, file)
    IN  /\ rev = r
        /\ stored = file
        /\ screens = scr
        /\ mode = initial_config.mode
        /\ pages = initial_config.pages
        /\ refresh_interval = initial_config.refresh_interval
        /\ slots_per_screen = initial_config.slots_per_screen
        /\ windows = <<>>
        /\ page_list = ItemsOf(r, initial_config.pages)
        /\ edits = 0
        /\ error = "none"
        /\ applied = NoApply
        /\ last = Did("start", "done", FALSE)
        /\ closed = <<>>

\* what the user may type
RefreshTexts == { <<"5", "0", "0", "0">>, <<" ", "7", " ">>, <<"x">> }
SlotsTexts == { <<"1">>, <<"0">>, <<"x">> }
AddTitles == { <<"D">>, <<" ">> }
AddUrls == { <<" ", "d">>, <<>> }

\* the stored files the program may find at start
SmallFiles(r) ==
    {NoFile("missing")}
    \cup { ConfigFile("object", ConfigKeys, CyclicPages(r, n), 5000, m, 2) :
             n \in 0..MaxPages, m \in {"single"} }

Init ==
    /\ collector = "refcount"
    /\ \E r \in Revisions, scr \in 1..MaxScreens :
           \E file \in SmallFiles(r) : Start(r, file, scr)

----------------------------------------------------------------------------
(* Handlers                                                                *)

Running == error = "none"

\* SettingsWindow.add_page_to_list (add_url_to_list before main_final.py)
add_page_to_list(title_text, url_text) ==
    LET new_title == strip(title_text)
        new_url == strip(url_text)
        accepted == IF HasTitles(rev) THEN new_title # <<>> /\ new_url # <<>>
                    ELSE new_url # <<>>
    IN  /\ Running
        /\ edits < MaxEdits
        /\ edits' = edits + 1
        /\ page_list' = IF ~accepted THEN page_list
                        ELSE IF HasTitles(rev)
                             THEN Append(page_list, new_title \o SEP \o new_url)
                             ELSE Append(page_list, new_url)
        /\ UNCHANGED <<rev, stored, mode, pages, refresh_interval, slots_per_screen,
                       windows, screens, error, applied, last, closed, collector>>

\* SettingsWindow.remove_selected_page with the item of the given row selected
remove_selected_page(row) ==
    /\ Running
    /\ row \in 1..Len(page_list)
    /\ edits < MaxEdits
    /\ edits' = edits + 1
    /\ page_list' = SubSeq(page_list, 1, row - 1) \o SubSeq(page_list, row + 1, Len(page_list))
    /\ UNCHANGED <<rev, stored, mode, pages, refresh_interval, slots_per_screen,
                   windows, screens, error, applied, last, closed, collector>>

\* MainController.set_mode; SettingsWindow.toggle_mode calls it
set_mode(m) ==
    LET built == apply_mode(rev, windows, m, pages, refresh_interval, slots_per_screen,
                            screens)
    IN  /\ mode' = m
        /\ windows' = built.windows
        /\ closed' = Unreclaimed(windows)
        /\ error' = built.error
        /\ applied' = IF built.error = "none"
                      THEN Snapshot(m, pages, refresh_interval, slots_per_screen, screens)
                      ELSE NoApply
        /\ last' = Did("toggle_mode", IF built.error = "none" THEN "applied" ELSE "raised",
                       FALSE)

\* mutant: the toggle writes the new mode to the file
toggle_mode_saves ==
    /\ Running
    /\ IF mode = "single" THEN set_mode("multi") ELSE set_mode("single")
    /\ stored' = save_config(pages, refresh_interval,
                             IF mode = "single" THEN "multi" ELSE "single",
                             slots_per_screen)
    /\ UNCHANGED <<rev, pages, refresh_interval, slots_per_screen,
                   screens, page_list, edits, collector>>

toggle_mode ==
    /\ Running
    /\ IF mode = "single" THEN set_mode("multi") ELSE set_mode("single")
    /\ UNCHANGED <<rev, stored, pages, refresh_interval, slots_per_screen,
                   screens, page_list, edits, collector>>

\* mutant: the file is written before the input is validated, and the input is
\* rejected
save_settings_writes_before_validation(refresh_text, slots_text) ==
    /\ Running
    /\ pages' = CollectPages(rev, page_list)
    /\ stored' = save_config(CollectPages(rev, page_list), refresh_interval, mode,
                             slots_per_screen)
    /\ last' = Did("save_settings", "rejected", FALSE)
    /\ UNCHANGED <<rev, mode, refresh_interval, slots_per_screen, windows, screens,
                   page_list, edits, error, applied, closed, collector>>

\* SettingsWindow.save_settings with the given texts in the two input fields
save_settings(refresh_text, slots_text) ==
    LET new_pages == CollectPages(rev, page_list)
        interval_ok == IntValid(refresh_text)
        new_interval == IntOf(refresh_text)
        slots_ok == ~HasSlots(rev) \/ (IntValid(slots_text) /\ IntOf(slots_text) >= 1)
        new_slots == IF HasSlots(rev) THEN IntOf(slots_text) ELSE slots_per_screen
        built == apply_mode(rev, windows, mode, new_pages, new_interval, new_slots,
                            screens)
    IN  /\ Running
        /\ pages' = new_pages
        /\ IF ~interval_ok
           THEN /\ last' = Did("save_settings", "rejected", FALSE)
                /\ UNCHANGED <<refresh_interval, slots_per_screen, windows, error,
                               applied, stored, closed>>
           ELSE /\ refresh_interval' = new_interval
                /\ IF ~slots_ok
                   THEN /\ last' = Did("save_settings", "rejected", FALSE)
                        /\ UNCHANGED <<slots_per_screen, windows, error, applied, stored,
                                       closed>>
                   ELSE /\ slots_per_screen' = new_slots
                        /\ windows' = built.windows
                        /\ closed' = Unreclaimed(windows)
                        /\ error' = built.error
                        /\ IF built.error = "none"
                           THEN /\ applied' = Snapshot(mode, new_pages, new_interval,
                                                       new_slots, screens)
                                /\ stored' = save_config(new_pages, new_interval,
                                                          mode, new_slots)
                                /\ last' = Did("save_settings", "applied",
                                               applied = Snapshot(mode, new_pages,
                                                   new_interval, new_slots, screens))
                           ELSE /\ applied' = NoApply
                                /\ last' = Did("save_settings", "raised", FALSE)
                                /\ UNCHANGED stored
        /\ UNCHANGED <<rev, mode, screens, page_list, edits, collector>>

\* mutant: the placeholders are reloaded too
refresh_all_views_every_cell(w) ==
    [w EXCEPT !.cells = [k \in 1..Len(w.cells) |-> [w.cells[k] EXCEPT !.reloads = @ + 1]]]

\* refresh_all_views: every view of the window reloads
refresh_all_views(w) ==
    [w EXCEPT !.cells = [k \in 1..Len(w.cells) |->
                            IF \E v \in 1..Len(w.views) : w.views[v] = w.cells[k].index
                            THEN [w.cells[k] EXCEPT !.reloads = @ + 1]
                            ELSE w.cells[k]]]

\* the timer of window i fires and its handler runs
Tick(i) ==
    /\ Running
    /\ i \in 1..Len(windows)
    /\ windows[i].timer
    /\ windows[i].ticks < MaxTicks
    /\ LET w == [windows[i] EXCEPT !.ticks = @ + 1]
           shown == IF w.kind = "multi"
                    THEN [win |-> refresh_all_views(w), error |-> "none"]
                    ELSE IF rev = "final"
                         THEN [win |-> show_next_page(w, "timer"), error |-> "none"]
                         ELSE show_next_url(w, "timer")
       IN  /\ windows' = [windows EXCEPT ![i] = shown.win]
           /\ error' = shown.error
    /\ UNCHANGED <<rev, stored, mode, pages, refresh_interval, slots_per_screen,
                   screens, page_list, edits, applied, last, closed, collector>>

Next ==
    \/ \E title_text \in AddTitles, url_text \in AddUrls :
           add_page_to_list(title_text, url_text)
    \/ \E row \in 1..Len(page_list) : remove_selected_page(row)
    \/ toggle_mode
    \/ \E refresh_text \in RefreshTexts, slots_text \in SlotsTexts :
           save_settings(refresh_text, slots_text)
    \/ \E i \in 1..MaxScreens : Tick(i)

Spec == Init /\ [][Next]_vars


\* the user presses Save with the two input fields as SettingsWindow.__init__
\* filled them: str(controller.refresh_interval), str(controller.slots_per_screen)
SaveAsShown == save_settings(IntText(refresh_interval), IntText(slots_per_screen))

----------------------------------------------------------------------------
(* The display left running: the timers fire, the user toggles the mode    *)
(* and saves the settings as they are, without typing or editing           *)

ShowFiles(r) ==
    {NoFile("missing"), NoFile("malformed"), NoFile("array")}
    \cup { ConfigFile("object", ConfigKeys, CyclicPages(r, n), DefaultRefreshInterval, m, sps) :
             n \in 0..MaxShowPages, m \in {"single", "multi"}, sps \in 1..MaxShowSlots }

InitShow ==
    /\ collector = "refcount"
    /\ \E r \in Revisions, scr \in 0..MaxShowScreens :
           \E file \in ShowFiles(r) : Start(r, file, scr)

NextShow ==
    \/ toggle_mode
    \/ SaveAsShown
    \/ \E i \in 1..MaxShowScreens : Tick(i)

SpecShow == InitShow /\ [][NextShow]_vars

----------------------------------------------------------------------------
(* A video wall: long page lists and many slots, no edits, no ticks        *)

WallRevisions == {"update", "update2", "final"}

WallFiles(r) ==
    { ConfigFile("object", ConfigKeys, CyclicPages(r, n), DefaultRefreshInterval, m, sps) :
        n \in 0..MaxWallPages, m \in {"single", "multi"}, sps \in 1..MaxSlots }

InitWall ==
    /\ collector = "refcount"
    /\ \E r \in WallRevisions, scr \in 0..MaxWallScreens :
           \E file \in WallFiles(r) : Start(r, file, scr)

NextWall ==
    \/ toggle_mode
    \/ SaveAsShown

SpecWall == InitWall /\ [][NextWall]_vars


----------------------------------------------------------------------------
(* URLs of every shape: the stored list holds one page whose URL is any of *)
(* UrlTexts, and the windows render it                                     *)

ExampleHost == SubSeq(DefaultPages[1].url, Len(HTTPS) + 1, Len(DefaultPages[1].url))

UrlLeads == { <<>>, <<" ">> }
UrlSchemes == { <<>>, HTTP, HTTPS, <<"H", "T", "T", "P", ":", "/", "/">>,
                <<"h", "t", "t", "p", ":", "/">>, <<"h", "t", "t", "p", "s">> }
UrlBodies == { <<>>, <<"x">>, ExampleHost, <<" ">>, <<"x", " ", "y">> }
UrlTrails == { <<>>, <<" ">> }

UrlTexts == { lead \o scheme \o body \o trail :
                lead \in UrlLeads, scheme \in UrlSchemes, body \in UrlBodies,
                trail \in UrlTrails }

UrlFiles(r) ==
    { ConfigFile("object", ConfigKeys,
                 <<[title |-> IF HasTitles(r) THEN <<"T">> ELSE <<>>, url |-> u]>>,
                 DefaultRefreshInterval, DefaultMode, DefaultSlotsPerScreen) :
        u \in UrlTexts }

InitUrl ==
    /\ collector = "refcount"
    /\ \E r \in Revisions : \E file \in UrlFiles(r) : Start(r, file, MaxScreens)

NextUrl ==
    \/ toggle_mode
    \/ \E i \in 1..MaxScreens : Tick(i)

SpecUrl == InitUrl /\ [][NextUrl]_vars

----------------------------------------------------------------------------
(* Stored files of every shape: no file, a file json.load rejects, a file  *)
(* that is not an object, and objects with any subset of the keys and with *)
(* values of either sign                                                   *)

LoadFiles(r) ==
    {NoFile("missing"), NoFile("malformed"), NoFile("array")}
    \cup { ConfigFile("object", has, CyclicPages(r, n), ri, m, sps) :
             has \in SUBSET ConfigKeys, n \in {0, MaxPages}, ri \in {0, 7},
             m \in {"single", "multi"}, sps \in {0, 2} }

InitLoad ==
    /\ collector = "refcount"
    /\ \E r \in Revisions : \E file \in LoadFiles(r) : Start(r, file, MaxScreens)

NextLoad ==
    \/ toggle_mode
    \/ SaveAsShown

SpecLoad == InitLoad /\ [][NextLoad]_vars

----------------------------------------------------------------------------
(* Teardown: what becomes of the windows apply_mode closes.  The runtime   *)
(* defers the collection of dropped objects, and close() may raise         *)

\* mutant: the handler of a closed window's timer works on the windows the
\* controller holds now
TickClosed_on_live_windows(i) ==
    /\ Running
    /\ i \in 1..Len(closed)
    /\ closed[i].win.timer
    /\ closed[i].late < MaxLate
    /\ closed' = [closed EXCEPT ![i].late = @ + 1]
    /\ windows' = [k \in 1..Len(windows) |->
                      IF windows[k].kind = "multi" THEN refresh_all_views(windows[k])
                      ELSE show_next_page(windows[k], "timer")]
    /\ UNCHANGED <<rev, stored, mode, pages, refresh_interval, slots_per_screen,
                   screens, page_list, edits, error, applied, last, collector>>

\* the timer of the closed window i fires and its handler runs on that window
TickClosed(i) ==
    /\ Running
    /\ i \in 1..Len(closed)
    /\ closed[i].win.timer
    /\ closed[i].late < MaxLate
    /\ LET w == [closed[i].win EXCEPT !.ticks = @ + 1]
           shown == IF w.kind = "multi"
                    THEN [win |-> refresh_all_views(w), error |-> "none"]
                    ELSE IF rev = "final"
                         THEN [win |-> show_next_page(w, "timer"), error |-> "none"]
                         ELSE show_next_url(w, "timer")
       IN  /\ closed' = [closed EXCEPT ![i] = [win |-> shown.win, late |-> @.late + 1]]
           /\ error' = shown.error
    /\ UNCHANGED <<rev, stored, mode, pages, refresh_interval, slots_per_screen,
                   windows, screens, page_list, edits, applied, last, collector>>

\* the runtime reclaims the closed windows: the objects and their timers end
Reclaim ==
    /\ Running
    /\ closed # <<>>
    /\ closed' = <<>>
    /\ UNCHANGED <<rev, stored, mode, pages, refresh_interval, slots_per_screen,
                   windows, screens, page_list, edits, error, applied, last, collector>>

\* toggle_mode when close() of window k raises: the exception leaves the loop
\* of apply_mode, set_mode and toggle_mode at once; the windows before k are
\* closed, the others are not, the list is not cleared and nothing is built
toggle_mode_close_raises(k) ==
    /\ Running
    /\ k \in 1..Len(windows)
    /\ mode' = IF mode = "single" THEN "multi" ELSE "single"
    /\ windows' = [i \in 1..Len(windows) |->
                      IF i < k THEN [windows[i] EXCEPT !.visible = FALSE] ELSE windows[i]]
    /\ error' = "RuntimeError"
    /\ last' = Did("toggle_mode", "raised", FALSE)
    /\ UNCHANGED <<rev, stored, pages, refresh_interval, slots_per_screen, screens,
                   page_list, edits, applied, closed, collector>>

TeardownFiles(r) ==
    {NoFile("missing")}
    \cup { ConfigFile("object", ConfigKeys, CyclicPages(r, n), DefaultRefreshInterval, m, 2) :
             n \in {MaxPages}, m \in {"single", "multi"} }

InitTeardown ==
    /\ collector = "deferred"
    /\ \E r \in Revisions, scr \in 1..MaxScreens :
           \E file \in TeardownFiles(r) : Start(r, file, scr)

NextTeardown ==
    \/ toggle_mode
    \/ SaveAsShown
    \/ \E i \in 1..MaxScreens : Tick(i)
    \/ \E i \in 1..MaxScreens : TickClosed(i)
    \/ Reclaim
    \/ \E k \in 1..MaxScreens : toggle_mode_close_raises(k)

SpecTeardown == InitTeardown /\ [][NextTeardown]_vars

----------------------------------------------------------------------------
(* The settings window in use: the list is edited, the fields are typed    *)
(* into, the settings are saved or rejected, the mode is toggled; the      *)
(* timers are left out                                                     *)

EditRevisions == {"update2", "final"}

\* what is in the two input fields when Save is pressed: both valid, the
\* interval invalid, the interval valid and new with the slots invalid
EditTexts ==
    { << <<"5", "0", "0", "0">>, <<"1">> >>,
      << <<"x">>, <<"1">> >>,
      << <<" ", "7", " ">>, <<"x">> >> }

InitEdit ==
    /\ collector = "refcount"
    /\ \E r \in EditRevisions, scr \in 1..MaxScreens :
           \E file \in SmallFiles(r) : Start(r, file, scr)

NextEdit ==
    \/ \E title_text \in AddTitles, url_text \in AddUrls :
           add_page_to_list(title_text, url_text)
    \/ \E row \in 1..Len(page_list) : remove_selected_page(row)
    \/ toggle_mode
    \/ \E texts \in EditTexts : save_settings(texts[1], texts[2])

SpecEdit == InitEdit /\ [][NextEdit]_vars

----------------------------------------------------------------------------
(* Rotation without end: the timer of a rotating window fires any number   *)
(* of times.  The history of a window keeps its latest renders only, as    *)
(* many as it has pages, and the count of timer events stops at MaxTicks;  *)
(* the reloads of the grid windows are left out                            *)

\* the last n entries of a history
LastOf(log, n) == SubSeq(log, Max(1, Len(log) - n + 1), Len(log))

\* the timer of the rotating window i fires and its handler runs
Rotate(i) ==
    /\ Running
    /\ i \in 1..Len(windows)
    /\ windows[i].kind = "single"
    /\ windows[i].timer
    /\ LET w == windows[i]
           shown == IF rev = "final"
                    THEN [win |-> show_next_page(w, "timer"), error |-> "none"]
                    ELSE show_next_url(w, "timer")
       IN  /\ windows' = [windows EXCEPT ![i] =
                             [shown.win EXCEPT !.ticks = Min(@ + 1, MaxTicks),
                                               !.log = LastOf(@, Len(w.pages))]]
           /\ error' = shown.error
    /\ UNCHANGED <<rev, stored, mode, pages, refresh_interval, slots_per_screen,
                   screens, page_list, edits, applied, last, closed, collector>>

RotateFiles(r) ==
    {NoFile("missing")}
    \cup { ConfigFile("object", ConfigKeys, CyclicPages(r, n), DefaultRefreshInterval, m,
                      DefaultSlotsPerScreen) :
             n \in 0..MaxShowPages, m \in {"single", "multi"} }

InitRotate ==
    /\ collector = "refcount"
    /\ \E r \in Revisions, scr \in 1..MaxScreens :
           \E file \in RotateFiles(r) : Start(r, file, scr)

NextRotate ==
    \/ toggle_mode
    \/ SaveAsShown
    \/ \E i \in 1..MaxScreens : Rotate(i)

\* a running QTimer keeps firing for as long as the event loop runs
SpecRotate ==
    InitRotate /\ [][NextRotate]_vars /\ WF_vars(\E i \in 1..MaxScreens : Rotate(i))

----------------------------------------------------------------------------
(* Titles and URLs of every shape in config.json: the settings window      *)
(* lists them, and the list is saved as it is or after an edit             *)

ListTitles == { <<"A">>, <<>>, <<"A", " ", "|", " ", "B">>, <<"A", " ", "|">>, <<"|">> }
ListUrls == { <<"a">>, <<"a", " ", "|", " ", "b">> }

\* the page lists of up to n pages a stored file may hold
RECURSIVE ListsUpTo(_, _)
ListsUpTo(r, n) ==
    IF n = 0 THEN {<<>>}
    ELSE LET shorter == ListsUpTo(r, n - 1)
             one == { [title |-> t, url |-> u] :
                        t \in (IF HasTitles(r) THEN ListTitles ELSE {<<>>}), u \in ListUrls }
         IN  shorter \cup { Append(l, p) : l \in {s \in shorter : Len(s) = n - 1}, p \in one }

ListFiles(r) ==
    { ConfigFile("object", ConfigKeys, l, DefaultRefreshInterval, DefaultMode,
                 DefaultSlotsPerScreen) : l \in ListsUpTo(r, MaxPages) }

InitList ==
    /\ collector = "refcount"
    /\ \E r \in EditRevisions : \E file \in ListFiles(r) : Start(r, file, MaxScreens)

NextList ==
    \/ \E row \in 1..Len(page_list) : remove_selected_page(row)
    \/ toggle_mode
    \/ SaveAsShown

SpecList == InitList /\ [][NextList]_vars

----------------------------------------------------------------------------
(* Properties                                                              *)

\* the windows on screen were built by apply_mode in multi mode
MultiApplied == applied # NoApply /\ applied.mode # "single"

\* the windows on screen were built by apply_mode in single mode
SingleApplied == applied # NoApply /\ applied.mode = "single"

\* revisions whose multi-mode window is a grid of cells
GridRevisions == {"update2", "final"}

\* the number of pages of a list of n that fall to monitor i (1, 2, ...) when
\* every monitor takes c
BlockSize(i, c, n) == Max(0, Min(i * c, n) - (i - 1) * c)

\* the pages at list positions (i-1)*c .. min(i*c, n)-1 of the applied list
BlockOf(i) ==
    LET c == applied.slots_per_screen
    IN  [k \in 1..BlockSize(i, c, Len(applied.pages)) |-> applied.pages[(i - 1) * c + k]]

\* cell k (1, 2, ...) of window w shows page p at the row-major place of k
ShowsAt(w, k, p) ==
    /\ k <= Len(w.cells)
    /\ w.cells[k].signal
    /\ w.cells[k].page = p
    /\ w.cells[k].url = format_url(p.url)
    /\ w.cells[k].index = k - 1
    /\ w.cells[k].row = (k - 1) \div w.cols
    /\ w.cells[k].col = (k - 1) % w.cols

\* C1 as claimed: after a multi-mode apply with c slots per surface, monitor i
\* has exactly the pages at list positions i*c .. min((i+1)*c, len)-1, in list
\* order, every one of them placed, in cells 0, 1, 2, ... row-major
C1_EveryBlockPagePlaced ==
    (rev \in GridRevisions /\ MultiApplied /\ applied.slots_per_screen >= 1) =>
        /\ Len(windows) = applied.screens
        /\ \A i \in 1..Len(windows) :
               /\ windows[i].screen = i
               /\ windows[i].pages = BlockOf(i)
               /\ \A k \in 1..Len(BlockOf(i)) : ShowsAt(windows[i], k, BlockOf(i)[k])

\* C1 amended: after a multi-mode apply with c slots per surface, monitor i is
\* handed exactly the pages at list positions i*c .. min((i+1)*c, len)-1, in
\* list order, and they are placed in cells 0, 1, 2, ... row-major as far as
\* the grid has cells: all of them when c <= 16, the first 16 when c > 16
C1_ContiguousBlocks ==
    (rev \in GridRevisions /\ MultiApplied /\ applied.slots_per_screen >= 1) =>
        /\ Len(windows) = applied.screens
        /\ \A i \in 1..Len(windows) :
               LET w == windows[i]
                   placed == IF applied.slots_per_screen <= 16 THEN Len(BlockOf(i))
                             ELSE Min(Len(BlockOf(i)), 16)
               IN  /\ w.screen = i
                   /\ w.pages = BlockOf(i)
                   /\ \A k \in 1..placed : ShowsAt(w, k, BlockOf(i)[k])
                   /\ \A k \in 1..Len(w.cells) : k > placed => ~w.cells[k].signal

\* 3 monitors, 2 slots, pages A B C D E: [A, B], [C, D], [E, no signal]
C1_Witness ==
    /\ rev = "final" /\ MultiApplied
    /\ applied.screens = 3 /\ applied.slots_per_screen = 2 /\ Len(applied.pages) = 5
    /\ Len(windows) = 3
    /\ ShowsAt(windows[1], 1, applied.pages[1]) /\ ShowsAt(windows[1], 2, applied.pages[2])
    /\ ShowsAt(windows[2], 1, applied.pages[3]) /\ ShowsAt(windows[2], 2, applied.pages[4])
    /\ ShowsAt(windows[3], 1, applied.pages[5]) /\ ~windows[3].cells[2].signal

\* the number of cells of the windows that show a page, and that show no signal
RECURSIVE CountCells(_, _)
CountCells(wins, signal) ==
    IF wins = <<>> THEN 0
    ELSE Cardinality({k \in 1..Len(Head(wins).cells) : Head(wins).cells[k].signal = signal})
         + CountCells(Tail(wins), signal)

\* the shape of the grid for c slots, from the table of the design
GridTable(c) ==
    CASE c <= 1 -> <<1, 1>>
      [] c = 2 -> <<1, 2>>
      [] c \in 3..4 -> <<2, 2>>
      [] c \in 5..6 -> <<2, 3>>
      [] c \in 7..9 -> <<3, 3>>
      [] c \in 10..12 -> <<3, 4>>
      [] c \in 13..16 -> <<4, 4>>
      [] c > 16 -> <<4, 4>>

GridCapacity(c) == GridTable(c)[1] * GridTable(c)[2]

\* C2 as claimed: after a multi-mode apply with m monitors and c >= 1 slots per
\* surface, c > 16 included, min(len(pages), m*c) cells show a page and
\* m * rows*cols minus that number show no signal
C2_AssignedIsMinOfPagesAndSlots ==
    (rev \in GridRevisions /\ MultiApplied /\ applied.slots_per_screen >= 1) =>
        LET m == applied.screens
            c == applied.slots_per_screen
            assigned == Min(Len(applied.pages), m * c)
        IN  /\ CountCells(windows, TRUE) = assigned
            /\ CountCells(windows, FALSE) = m * GridCapacity(c) - assigned

RECURSIVE PlaceableSum(_, _, _)
PlaceableSum(m, c, n) ==
    IF m = 0 THEN 0
    ELSE Min(BlockSize(m, c, n), GridCapacity(c)) + PlaceableSum(m - 1, c, n)

\* C2 amended: after a multi-mode apply with m monitors and c >= 1 slots per
\* surface, the cells that show a page number min(len(pages), m*c) when
\* c <= 16; when c > 16 every surface shows only the first 16 pages of its
\* block of c, so they number the sum over the monitors of min(16, size of the
\* monitor's block); the no-signal cells number m * rows*cols minus that
C2_AssignedUpToGridCapacity ==
    (rev \in GridRevisions /\ MultiApplied /\ applied.slots_per_screen >= 1) =>
        LET m == applied.screens
            c == applied.slots_per_screen
            n == Len(applied.pages)
            assigned == IF c <= 16 THEN Min(n, m * c) ELSE PlaceableSum(m, c, n)
        IN  /\ CountCells(windows, TRUE) = assigned
            /\ CountCells(windows, FALSE) = m * GridCapacity(c) - assigned

\* 2 monitors with 17 slots each and 18 pages: 16 + 1 cells show a page
C2_Witness ==
    /\ rev = "final" /\ MultiApplied
    /\ applied.screens = 2 /\ applied.slots_per_screen = 17 /\ Len(applied.pages) = 18
    /\ CountCells(windows, TRUE) = 17
    /\ CountCells(windows, FALSE) = 15


\* C3: in single mode, with the render at construction counted as render 0,
\* the j-th render of a window over n > 0 pages shows pages[j mod n], after
\* any number of timer ticks
C3_RendersInListOrder ==
    \A i \in 1..Len(windows) :
        LET w == windows[i]
            n == Len(w.pages)
        IN  (w.kind = "single" /\ n > 0) =>
                /\ \A j \in 1..Len(w.log) :
                       /\ w.log[j].index = (j - 1) % n
                       /\ w.log[j].page = w.pages[((j - 1) % n) + 1]
                /\ w.log # <<>> => w.webview = format_url(w.log[Len(w.log)].page.url)

\* two pages, three renders: the third shows the first page again
C3_Witness ==
    \E i \in 1..Len(windows) :
        /\ rev = "final" /\ windows[i].kind = "single"
        /\ Len(windows[i].pages) = 2 /\ windows[i].pages[1] # windows[i].pages[2]
        /\ Len(windows[i].log) = 3 /\ windows[i].ticks = 2
        /\ windows[i].log[3].page = windows[i].pages[1]

\* C4 as claimed: in main.py, main_update2.py and main_final.py alike, a
\* single-mode window over an empty list is built and ticked without a render
\* and without an error, and its index stays 0
C4_EmptyListIsSafe ==
    (rev \in {"main", "update2", "final"} /\ mode = "single" /\ pages = <<>>) =>
        /\ error = "none"
        /\ \A i \in 1..Len(windows) :
               (windows[i].kind = "single" /\ windows[i].pages = <<>>) =>
                   /\ windows[i].log = <<>>
                   /\ windows[i].webview = <<>>
                   /\ windows[i].current_index = 0

\* C5: a multi-mode apply with slots_per_screen >= 1 builds one window per
\* monitor whatever the number of pages (none for an empty topology); every
\* cell past the monitor's share of the pages shows no signal and has no view
C5_OneSurfacePerMonitor ==
    (rev \in GridRevisions /\ MultiApplied /\ applied.slots_per_screen >= 1) =>
        /\ Len(windows) = applied.screens
        /\ \A i \in 1..Len(windows) :
               LET w == windows[i]
                   share == BlockSize(i, applied.slots_per_screen, Len(applied.pages))
               IN  /\ w.screen = i
                   /\ w.visible
                   /\ Len(w.cells) = GridCapacity(applied.slots_per_screen)
                   /\ \A k \in 1..Len(w.cells) :
                          k > share =>
                              /\ ~w.cells[k].signal
                              /\ w.cells[k].page = NoPage
                              /\ w.cells[k].url = <<>>
                              /\ w.cells[k].reloads = 0
                              /\ \A v \in 1..Len(w.views) : w.views[v] # k - 1

\* 2 monitors, 2 slots, no page: two windows of two no-signal cells each
C5_Witness ==
    /\ rev = "final" /\ MultiApplied
    /\ applied.screens = 2 /\ applied.slots_per_screen = 2 /\ applied.pages = <<>>
    /\ Len(windows) = 2
    /\ \A i \in 1..2 : /\ Len(windows[i].cells) = 2
                       /\ windows[i].views = <<>>
                       /\ \A k \in 1..2 : ~windows[i].cells[k].signal

\* the list positions that some cell of the windows shows
AssignedPositions ==
    UNION { {windows[i].cells[k].pos :
                k \in {j \in 1..Len(windows[i].cells) : windows[i].cells[j].signal}} :
            i \in 1..Len(windows) }


\* C6: when the list is longer than monitors * slots_per_screen, a multi-mode
\* apply shows only pages of the first monitors * slots_per_screen list
\* positions (all of them where every taken page gets a cell), no cell shows a
\* page of a later position, and apply_mode ends without an error
C6_ExcessPagesDropped ==
    (MultiApplied /\ rev \in WallRevisions /\ applied.slots_per_screen >= 1
       /\ Len(applied.pages) > applied.screens * applied.slots_per_screen) =>
        LET limit == applied.screens * applied.slots_per_screen
        IN  /\ error = "none"
            /\ last.outcome = "applied"
            /\ \A pos \in AssignedPositions : pos < limit
            /\ \A i \in 1..Len(windows) : \A k \in 1..Len(windows[i].cells) :
                   windows[i].cells[k].signal =>
                       windows[i].cells[k].page = applied.pages[windows[i].cells[k].pos + 1]
            /\ (rev = "update" \/ applied.slots_per_screen <= 16) =>
                   AssignedPositions = 0..(limit - 1)

\* 2 monitors, 2 slots, 5 pages: the fifth page is in no cell
C6_Witness ==
    /\ rev = "final" /\ MultiApplied
    /\ applied.screens = 2 /\ applied.slots_per_screen = 2 /\ Len(applied.pages) = 5
    /\ AssignedPositions = 0..3
    /\ error = "none"

\* C7: for every slot count s in 1..20 the grid of a window built for s slots
\* has the shape of the table, and rows*cols >= min(s, 16)
C7_GridMatchesTable ==
    \A i \in 1..Len(windows) :
        LET w == windows[i]
        IN  (rev \in GridRevisions /\ w.kind = "multi" /\ w.slots_per_screen \in 1..20) =>
                /\ <<w.rows, w.cols>> = GridTable(w.slots_per_screen)
                /\ w.rows * w.cols >= Min(w.slots_per_screen, 16)
                /\ Len(w.cells) = w.rows * w.cols

\* a window built for 17 slots has 4 x 4 cells
C7_Witness ==
    \E i \in 1..Len(windows) :
        /\ rev = "final" /\ windows[i].kind = "multi"
        /\ windows[i].slots_per_screen = 17
        /\ windows[i].rows = 4 /\ windows[i].cols = 4

\* which page is in which cell of which window, apart from what ticks change
Assignment(wins) ==
    [i \in 1..Len(wins) |->
        [kind |-> wins[i].kind, screen |-> wins[i].screen, pages |-> wins[i].pages,
         cells |-> [k \in 1..Len(wins[i].cells) |->
                       [index |-> wins[i].cells[k].index, row |-> wins[i].cells[k].row,
                        col |-> wins[i].cells[k].col, signal |-> wins[i].cells[k].signal,
                        page |-> wins[i].cells[k].page]]]]

\* a save_settings step
SaveStep ==
    \/ SaveAsShown
    \/ \E refresh_text \in RefreshTexts, slots_text \in SlotsTexts :
           save_settings(refresh_text, slots_text)

\* C8: an apply_mode that is given the pages, mode, slots and monitors the
\* windows on screen were built from puts the same pages in the same cells of
\* the same windows, and in single mode the new window starts over: its first
\* render is pages[0], whatever index the old window had reached
C8_ApplyIdempotent ==
    [][ (last'.outcome = "applied" /\ last'.again /\ SaveStep) =>
            /\ Assignment(windows') = Assignment(windows)
            /\ \A i \in 1..Len(windows') :
                   LET w == windows'[i]
                   IN  w.kind = "single" =>
                           /\ w.ticks = 0
                           /\ w.pages # <<>> =>
                                  /\ w.log = <<[index |-> 0, page |-> w.pages[1], by |-> "init"]>>
                                  /\ w.webview = format_url(w.pages[1].url)
                                  /\ w.current_index = 1 % Len(w.pages)
                           /\ w.pages = <<>> => w.current_index = 0 /\ w.log = <<>>
      ]_vars

\* a second apply of the same configuration has just rebuilt a single-mode
\* window over two pages
C8_Witness ==
    /\ rev = "final" /\ last.op = "save_settings" /\ last.outcome = "applied" /\ last.again
    /\ Len(windows) = 1 /\ windows[1].kind = "single"
    /\ Len(windows[1].pages) = 2 /\ windows[1].ticks = 0 /\ windows[1].current_index = 1

\* C9 as claimed: a save_settings that rejects its input leaves the
\* controller's pages, refresh_interval, slots_per_screen and mode as they were
C9_RejectedSaveKeepsConfig ==
    [][ (last'.outcome = "rejected" /\ SaveStep) =>
            /\ pages' = pages
            /\ refresh_interval' = refresh_interval
            /\ slots_per_screen' = slots_per_screen
            /\ mode' = mode
      ]_vars

\* C10: in single mode the first render happens inside the construction of the
\* window: a window over n > 0 pages has rendered pages[0] and stands at index
\* 1 mod n before its timer has fired, and every later render is a timer's
C10_FirstRenderAtConstruction ==
    \A i \in 1..Len(windows) :
        LET w == windows[i]
            n == Len(w.pages)
        IN  (w.kind = "single" /\ n > 0) =>
                /\ Len(w.log) = w.ticks + 1
                /\ w.log[1] = [index |-> 0, page |-> w.pages[1], by |-> "init"]
                /\ \A j \in 2..Len(w.log) : w.log[j].by = "timer"
                /\ w.ticks = 0 => /\ w.current_index = 1 % n
                                  /\ w.webview = format_url(w.pages[1].url)

\* apply_mode has returned and no timer has fired yet
C10_Witness ==
    /\ rev = "final" /\ SingleApplied /\ Len(windows) = 1
    /\ Len(windows[1].pages) = 2
    /\ windows[1].ticks = 0 /\ Len(windows[1].log) = 1 /\ windows[1].current_index = 1
    /\ windows[1].visible

\* C11: in multi mode a tick reloads exactly the cells that carry a page, each
\* on the page it was given at construction: after any number of ticks every
\* such cell still shows that page and has been reloaded once per tick, the
\* views of the window are exactly those cells, and a no-signal cell has never
\* been reloaded
C11_TickReloadsAssignedCells ==
    \A i \in 1..Len(windows) :
        LET w == windows[i]
        IN  (rev \in GridRevisions /\ w.kind = "multi") =>
                /\ {w.views[v] : v \in 1..Len(w.views)}
                     = {w.cells[k].index : k \in {j \in 1..Len(w.cells) : w.cells[j].signal}}
                /\ \A k \in 1..Len(w.cells) :
                       IF w.cells[k].signal
                       THEN /\ k <= Len(w.pages)
                            /\ w.cells[k].page = w.pages[k]
                            /\ w.cells[k].page = applied.pages[w.cells[k].pos + 1]
                            /\ w.cells[k].url = format_url(w.pages[k].url)
                            /\ w.cells[k].reloads = w.ticks
                       ELSE /\ w.cells[k].reloads = 0
                            /\ w.cells[k].url = <<>>

\* a window of one page cell and one placeholder has handled two ticks
C11_Witness ==
    \E i \in 1..Len(windows) :
        /\ rev = "final" /\ windows[i].kind = "multi" /\ windows[i].ticks = 2
        /\ Len(windows[i].cells) = 2
        /\ windows[i].cells[1].signal /\ windows[i].cells[1].reloads = 2
        /\ windows[i].cells[1].page = applied.pages[windows[i].cells[1].pos + 1]
        /\ ~windows[i].cells[2].signal /\ windows[i].cells[2].reloads = 0

\* C12: whenever the windows on screen come from a single-mode apply, whatever
\* applies came before it, there is exactly one window, it is a rotating window
\* with one web view and no grid, and neither the number of monitors nor
\* slots_per_screen has any part in it; in main_final.py every single-mode
\* apply ends that way
C12_SingleModeOneSurface ==
    /\ SingleApplied =>
           /\ Len(windows) = 1
           /\ windows[1].kind = "single"
           /\ windows[1].cells = <<>> /\ windows[1].views = <<>>
           /\ windows[1].rows = 0 /\ windows[1].cols = 0
           /\ windows[1].pages = applied.pages
           /\ windows[1].visible
    /\ (rev = "final" /\ mode = "single" /\ last.outcome = "applied") => SingleApplied

\* two monitors and three slots per screen: the wall was toggled back to single
\* mode and one window is left
C12_Witness ==
    /\ rev = "final" /\ SingleApplied /\ last.op = "toggle_mode"
    /\ applied.screens = 2 /\ applied.slots_per_screen = 3
    /\ Len(applied.pages) = 3
    /\ Len(windows) = 1 /\ windows[1].kind = "single" /\ windows[1].cells = <<>>

\* every URL a window renders, with the stored URL it was made from
RenderedUrls ==
    UNION { IF windows[i].kind = "single"
            THEN IF windows[i].log = <<>> THEN {}
                 ELSE {<<windows[i].log[Len(windows[i].log)].page.url, windows[i].webview>>}
            ELSE {<<windows[i].cells[k].page.url, windows[i].cells[k].url>> :
                    k \in {j \in 1..Len(windows[i].cells) : windows[i].cells[j].signal}} :
            i \in 1..Len(windows) }

\* t is u without its leading and trailing whitespace
IsTrimOf(t, u) ==
    \E a \in 0..Len(u) : \E b \in a..Len(u) :
        /\ t = SubSeq(u, a + 1, b)
        /\ \A k \in 1..a : u[k] \in Whitespace
        /\ \A k \in (b + 1)..Len(u) : u[k] \in Whitespace
        /\ t # <<>> => (t[1] \notin Whitespace /\ t[Len(t)] \notin Whitespace)

\* C13: the URL rendered for a stored URL u is u trimmed of surrounding
\* whitespace, with https:// put in front unless the trimmed text starts with
\* http:// or https://; "example.com" gives "https://example.com", "http://x"
\* stays, and normalizing the rendered URL again changes nothing
C13_FormatUrlNormalizes ==
    \A shown \in RenderedUrls :
        LET u == shown[1]
            f == shown[2]
        IN  /\ \E t \in {f, SubSeq(f, Len(HTTPS) + 1, Len(f))} :
                   /\ IsTrimOf(t, u)
                   /\ f = IF startswith(t, HTTP) \/ startswith(t, HTTPS) THEN t
                          ELSE HTTPS \o t
            /\ format_url(f) = f
            /\ u = ExampleHost => f = HTTPS \o ExampleHost
            /\ u = HTTP \o <<"x">> => f = u

\* " example.com " is on screen as "https://example.com"
C13_Witness ==
    \E i \in 1..Len(windows) :
        /\ windows[i].kind = "single" /\ windows[i].log # <<>>
        /\ windows[i].pages[1].url = <<" ">> \o ExampleHost \o <<" ">>
        /\ windows[i].webview = HTTPS \o ExampleHost
        /\ format_url(windows[i].webview) = windows[i].webview

\* C14: at the start of the program the controller holds the complete default
\* record when config.json is missing, is rejected by the parser or is not an
\* object; when it is an object, every key it has gives the stored value and
\* every key it lacks gives that key's default, each on its own
C14_LoadConfigDefaults ==
    last.op = "start" =>
        IF stored.kind # "object"
        THEN /\ pages = (IF HasTitles(rev) THEN DefaultPages ELSE DefaultUrls)
             /\ refresh_interval = DefaultRefreshInterval
             /\ mode = DefaultMode
             /\ slots_per_screen = DefaultSlotsPerScreen
        ELSE /\ pages = IF "pages" \in stored.has THEN stored.pages
                        ELSE IF HasTitles(rev) THEN DefaultPages ELSE DefaultUrls
             /\ refresh_interval = IF "refresh_interval" \in stored.has
                                   THEN stored.refresh_interval
                                   ELSE DefaultRefreshInterval
             /\ mode = IF "mode" \in stored.has THEN stored.mode ELSE DefaultMode
             /\ HasSlots(rev) =>
                    slots_per_screen = IF "slots_per_screen" \in stored.has
                                       THEN stored.slots_per_screen
                                       ELSE DefaultSlotsPerScreen

\* an object with the keys mode and refresh_interval only: these two are as
\* stored, the pages and slots_per_screen are the defaults
C14_Witness ==
    /\ rev = "final" /\ last.op = "start" /\ stored.kind = "object"
    /\ stored.has = {"mode", "refresh_interval"}
    /\ mode = "multi" /\ refresh_interval = 7
    /\ pages = DefaultPages /\ stored.pages # DefaultPages
    /\ slots_per_screen = 1 /\ stored.slots_per_screen # 1

LateTickStep ==
    \E i \in 1..Len(closed) :
        /\ Len(closed') = Len(closed)
        /\ closed'[i].late = closed[i].late + 1

\* every window the program has built, on screen or closed
AllWindows ==
    {windows[i] : i \in 1..Len(windows)} \cup {closed[i].win : i \in 1..Len(closed)}

\* C16: however timer events and applies interleave, a timer event of a window
\* that apply_mode has closed leaves the windows built since, and the
\* controller, exactly as they were (index, pages, cells and reload counts); and
\* every timer event a window has handled came after its own timer was
\* started, which is before the render made at construction
C16_LateTicksLeaveNewWindowsAlone ==
    /\ [][ LateTickStep =>
               /\ windows' = windows
               /\ pages' = pages /\ mode' = mode /\ applied' = applied
               /\ refresh_interval' = refresh_interval
               /\ slots_per_screen' = slots_per_screen
         ]_vars
    /\ [](\A w \in AllWindows :
              /\ w.ticks > 0 => w.timer
              /\ \A j \in 1..Len(w.log) :
                     w.log[j].by = "timer" => (j > 1 /\ w.log[1].by = "init"))

\* a closed rotating window has handled a timer event after the mode was
\* toggled, and the grid window built by that toggle has handled none
C16_Witness ==
    /\ rev = "final" /\ MultiApplied /\ Len(windows) >= 1
    /\ windows[1].kind = "multi" /\ windows[1].ticks = 0
    /\ windows[1].cells[1].reloads = 0
    /\ \E i \in 1..Len(closed) :
           /\ closed[i].win.kind = "single" /\ closed[i].late = 1
           /\ Len(closed[i].win.log) = 2 /\ closed[i].win.log[2].by = "timer"

\* C17 as claimed: in every state of the controller, from the start of the
\* program on and after any saves and toggles, refresh_interval > 0 and
\* slots_per_screen >= 1
C17_SettingsStayPositive ==
    /\ refresh_interval > 0
    /\ slots_per_screen >= 1

\* window i has just handled a timer event
TickStepOf(i) ==
    /\ Len(windows') = Len(windows)
    /\ i \in 1..Len(windows)
    /\ windows'[i].ticks = windows[i].ticks + 1

\* C18: in multi mode every window has exactly rows*cols cells for the grid of
\* its slots_per_screen, at most slots_per_screen of them carry a page, the
\* cells that carry a page are exactly cells 0..a-1, cell i sits at row
\* i div cols and column i mod cols, and a timer event changes neither the
\* number of cells nor which of them carry a page or what page they carry
C18_GridCellsFixed ==
    /\ [](\A i \in 1..Len(windows) :
              LET w == windows[i]
                  a == Cardinality({k \in 1..Len(w.cells) : w.cells[k].signal})
              IN  (rev \in GridRevisions /\ w.kind = "multi" /\ w.slots_per_screen >= 1) =>
                      /\ <<w.rows, w.cols>> = GridTable(w.slots_per_screen)
                      /\ Len(w.cells) = w.rows * w.cols
                      /\ a <= w.slots_per_screen
                      /\ a = Min(Len(w.pages), w.rows * w.cols)
                      /\ \A k \in 1..Len(w.cells) :
                             /\ w.cells[k].signal <=> k <= a
                             /\ w.cells[k].index = k - 1
                             /\ w.cells[k].row = (k - 1) \div w.cols
                             /\ w.cells[k].col = (k - 1) % w.cols
                             /\ w.cells[k].row < w.rows)
    /\ [][ \A i \in 1..Len(windows) :
               (TickStepOf(i) /\ windows[i].kind = "multi") =>
                   /\ Len(windows'[i].cells) = Len(windows[i].cells)
                   /\ \A k \in 1..Len(windows[i].cells) :
                          /\ windows'[i].cells[k].signal = windows[i].cells[k].signal
                          /\ windows'[i].cells[k].page = windows[i].cells[k].page
                          /\ windows'[i].cells[k].row = windows[i].cells[k].row
                          /\ windows'[i].cells[k].col = windows[i].cells[k].col
         ]_vars

\* a 2 x 3 grid for five slots with three pages: cells 0, 1, 2 carry them, the
\* second row shows no signal, and the window has handled two ticks
C18_Witness ==
    \E i \in 1..Len(windows) :
        LET w == windows[i]
        IN  /\ rev = "final" /\ w.kind = "multi" /\ w.slots_per_screen = 5
            /\ w.rows = 2 /\ w.cols = 3 /\ Len(w.cells) = 6 /\ w.ticks = 2
            /\ \A k \in 1..3 : w.cells[k].signal /\ w.cells[k].row = 0 /\ w.cells[k].col = k - 1
            /\ \A k \in 4..6 : ~w.cells[k].signal /\ w.cells[k].row = 1 /\ w.cells[k].col = k - 4

\* C19 as claimed: when close() of a window raises during the teardown of
\* apply_mode, the other windows are closed all the same and the controller's
\* list of windows is emptied
C19_DisposalNeverAborts ==
    error = "RuntimeError" =>
        /\ windows = <<>>
        /\ \A i \in 1..Len(closed) : ~closed[i].win.visible

\* the windows apply_mode builds, from no windows, for what it was given last
BuiltByLastApply ==
    apply_mode(rev, <<>>, applied.mode, applied.pages, applied.refresh_interval,
               applied.slots_per_screen, applied.screens).windows

\* C20: the controller's windows are exactly those the most recent apply_mode
\* built, none of an earlier one among them (no window when no apply has
\* completed); and a step that is no apply_mode - an edit of the list, a save
\* that is rejected after set_pages or set_refresh_interval has run - leaves
\* the windows exactly as they were
C20_WindowsReplacedWholesale ==
    /\ [](IF applied = NoApply THEN windows = <<>> ELSE windows = BuiltByLastApply)
    /\ [][ (last'.outcome = "rejected" \/ edits' # edits) => windows' = windows ]_vars

\* a save was rejected after it had replaced the controller's pages: the
\* window on screen is still the one of the last apply, with the pages of then
C20_Witness ==
    /\ rev = "final" /\ last.outcome = "rejected" /\ applied # NoApply
    /\ pages # applied.pages
    /\ Len(windows) = 1 /\ windows[1].pages = applied.pages
    /\ windows = BuiltByLastApply

\* C21 as claimed: once the program has started and before the user has done
\* anything, apply_mode has run on the loaded configuration: the windows for
\* the loaded mode are built and shown
C21_StartupAppliesConfig ==
    last.op = "start" =>
        /\ applied = Snapshot(mode, pages, refresh_interval, slots_per_screen, screens)
        /\ windows = BuiltByLastApply
        /\ \A i \in 1..Len(windows) : windows[i].visible
        /\ (mode = "single" /\ pages # <<>>) => Len(windows) = 1

\* the list positions 0..n-1 that leave remainder i when divided by m, ascending
RECURSIVE EveryMth(_, _, _)
EveryMth(i, m, n) == IF i >= n THEN <<>> ELSE <<i>> \o EveryMth(i + m, m, n)

\* C22: in main.py a multi-mode apply with m monitors gives monitor i (0, 1,
\* ...) exactly the URLs at list positions i, i+m, i+2m, ..., in that order;
\* the shares are disjoint and, where there is a monitor at all, together
\* cover the list; and exactly the monitors whose share is not empty get a
\* window, in the order of the monitors
C22_StridedSharesPartition ==
    (rev = "main" /\ MultiApplied /\ applied.mode = "multi") =>
        LET m == applied.screens
            n == Len(applied.pages)
            served == {i \in 0..(m - 1) : i < n}
        IN  /\ Len(windows) = Cardinality(served)
            /\ {windows[k].screen - 1 : k \in 1..Len(windows)} = served
            /\ \A k \in 1..Len(windows) :
                   LET w == windows[k]
                       i == w.screen - 1
                   IN  /\ w.kind = "multi"
                       /\ w.pages # <<>>
                       /\ w.positions = EveryMth(i, m, n)
                       /\ Len(w.pages) = Len(w.positions)
                       /\ \A j \in 1..Len(w.pages) :
                              w.pages[j] = applied.pages[w.positions[j] + 1]
                       /\ \A j \in 1..Len(w.positions) : w.positions[j] % m = i
                       /\ \A k2 \in 1..Len(windows) : k2 > k => windows[k2].screen > w.screen
            /\ m >= 1 => \A pos \in 0..(n - 1) :
                   Cardinality({k \in 1..Len(windows) :
                                   \E j \in 1..Len(windows[k].positions) :
                                       windows[k].positions[j] = pos}) = 1

\* two monitors and three URLs: the first monitor has the first and the third,
\* the second monitor the second
C22_Witness ==
    /\ rev = "main" /\ MultiApplied
    /\ applied.screens = 2 /\ Len(applied.pages) = 3
    /\ Len(windows) = 2
    /\ windows[1].positions = <<0, 2>> /\ windows[2].positions = <<1>>
    /\ windows[1].pages = <<applied.pages[1], applied.pages[3]>>

\* window i has just handled a timer event and is a rotating window
RotationStepOf(i) == TickStepOf(i) /\ windows[i].kind = "single"

\* C23: a rotating window of main_final.py over n pages has 0 <= current_index
\* < n when n > 0 and current_index = 0 when n = 0, at construction and after
\* every timer event; a timer event renders the page at the index the window
\* had, which is a position of its list, and raises nothing; over an empty
\* list it renders nothing and leaves the index at 0
C23_RotationIndexInRange ==
    /\ [](\A i \in 1..Len(windows) :
              LET w == windows[i]
                  n == Len(w.pages)
              IN  (rev = "final" /\ w.kind = "single") =>
                      /\ n > 0 => (0 <= w.current_index /\ w.current_index < n)
                      /\ n = 0 => (w.current_index = 0 /\ w.log = <<>>)
                      /\ \A j \in 1..Len(w.log) : w.log[j].index \in 0..(n - 1)
                      /\ error = "none")
    /\ [][ \A i \in 1..Len(windows) :
               (rev = "final" /\ RotationStepOf(i)) =>
                   LET w == windows[i]
                       n == Len(w.pages)
                   IN  /\ error' = "none"
                       /\ windows'[i].pages = w.pages
                       /\ n = 0 => (windows'[i].log = w.log /\ windows'[i].current_index = 0)
                       /\ n > 0 =>
                              /\ w.current_index + 1 \in 1..n
                              /\ windows'[i].log =
                                     Append(w.log, [index |-> w.current_index,
                                                    page |-> w.pages[w.current_index + 1],
                                                    by |-> "timer"])
                              /\ windows'[i].current_index \in 0..(n - 1)
         ]_vars

\* three pages and two timer events: the index has gone 1, 2 and back to 0
C23_Witness ==
    \E i \in 1..Len(windows) :
        /\ rev = "final" /\ windows[i].kind = "single"
        /\ Len(windows[i].pages) = 3 /\ windows[i].ticks = 2
        /\ windows[i].current_index = 0
        /\ windows[i].log[3].index = 2

\* a step in which apply_mode runs
ApplyStep == toggle_mode \/ SaveAsShown

\* a rotating window with a running timer is on screen and has more than p pages
RotatesOver(p) ==
    \E i \in 1..Len(windows) :
        windows[i].kind = "single" /\ windows[i].timer /\ Len(windows[i].pages) > p

\* the latest render of a rotating window shows list position p
Rendered(p) ==
    \E i \in 1..Len(windows) :
        /\ windows[i].kind = "single" /\ windows[i].log # <<>>
        /\ windows[i].log[Len(windows[i].log)].index = p
        /\ windows[i].webview = format_url(windows[i].pages[p + 1].url)

\* C24: in single mode over n > 0 pages the latest n renders of a window show
\* every list position exactly once, each render showing the position after the
\* one before it; and when from some time on no apply intervenes and the timer
\* of the window keeps firing, every list position is rendered again and again
C24_RotationFair ==
    /\ [](\A i \in 1..Len(windows) :
              LET w == windows[i]
                  n == Len(w.pages)
              IN  (w.kind = "single" /\ n > 0) =>
                      /\ Len(w.log) <= n
                      /\ \A j \in 1..Len(w.log) : \A k \in 1..Len(w.log) :
                             w.log[j].index = w.log[k].index => j = k
                      /\ Len(w.log) = n => {w.log[j].index : j \in 1..n} = 0..(n - 1)
                      /\ \A j \in 1..Len(w.log) :
                             /\ w.log[j].page = w.pages[w.log[j].index + 1]
                             /\ j > 1 => w.log[j].index = (w.log[j - 1].index + 1) % n)
    /\ \A p \in 0..(MaxShowPages - 1) :
           (<>[][~ApplyStep]_vars /\ <>[]RotatesOver(p)) => []<>Rendered(p)

\* three pages, more renders than pages: the latest three are of the positions
\* 1, 2 and 0
C24_Witness ==
    \E i \in 1..Len(windows) :
        /\ rev = "final" /\ windows[i].kind = "single" /\ Len(windows[i].pages) = 3
        /\ Len(windows[i].log) = 3
        /\ windows[i].log[1].index = 1 /\ windows[i].log[2].index = 2
        /\ windows[i].log[3].index = 0 /\ windows[i].log[3].by = "timer"
        /\ windows[i].current_index = 1

\* a save_settings step of the settings window in use
EditSaveStep == \E texts \in EditTexts : save_settings(texts[1], texts[2])

StoredIsControllerRecord ==
    /\ stored'.kind = "object" /\ stored'.has = ConfigKeys
    /\ stored'.pages = pages'
    /\ stored'.refresh_interval = refresh_interval'
    /\ stored'.mode = mode'
    /\ stored'.slots_per_screen = slots_per_screen'

C27_ListRoundTrip ==
    [][ (SaveAsShown /\ edits = 0 /\ rev = "final") =>
            /\ Len(pages') = Len(pages)
            /\ \A i \in 1..Len(pages) :
                   /\ pages'[i].title = pages[i].title
                   /\ pages'[i].url = pages[i].url
      ]_vars

====
